---- MODULE Spec2Model ----
(***************************************************************************)
(* Model of the scripting bridge (ga_lua_component), the mesh buffer       *)
(* builder (ga_mesh) and the model component (ga_model_component) of the   *)
(* RPI Game Architecture engine.                                           *)
(*                                                                         *)
(* Two specifications share the module:                                    *)
(*   Spec       the life of one ga_lua_component,                          *)
(*   ModelSpec  the life of one ga_model_component and of its meshes.      *)
(***************************************************************************)
EXTENDS Integers, Sequences, FiniteSets, TLC

\* ------------------------------------------------------------------ bounds
\* per-frame invocations of a component
MaxFrames == 2
\* script steps (native calls, rebinds) over the life of the component
MaxSteps == 2
\* arguments a script passes to a native callable
MaxArgs == 5
\* statements of the script's top-level chunk
MaxChunkOps == 2
\* meshes of an imported scene
MaxMeshes == 2
\* faces of an imported mesh
MaxFaces == 2
\* nodes of an imported scene
MaxNodes == 3
\* per-frame updates of a model component
MaxModelFrames == 2

\* ------------------------------------------------------------ Lua values
\* Every Lua value is a string of the model: light userdata handles, numbers,
\* booleans, nil, script functions, and what an invalid read may yield.
ParamsHandles == {"pA", "pB"}
HandleVals == {"self", "ent"} \cup ParamsHandles
NumVals == {"n0", "n1", "nbig"}
ScriptFunctions == {"F1", "F2"}
\* what a script may assign to the global update while it runs
UpdateBindings == ScriptFunctions \cup {"nil"}
NativeNames == {"frame_params_get_input_left", "frame_params_get_input_right",
                "component_get_entity", "entity_translate"}
\* what the slot under an empty C frame, or a field read through a pointer
\* of the wrong type, may hold
UndefVals == {"cfunction", "garbage"}
NoValue == "none"

\* lua_isfunction
lua_isfunction(v) == v \in ScriptFunctions

\* bits of a single precision mantissa: the (float) casts of entity_translate
FLT_MANT_DIG == 24

RECURSIVE Pow2(_)
Pow2(n) == IF n = 0 THEN 1 ELSE 2 * Pow2(n - 1)

\* lua_tonumber: the number a value converts to; 0 for what is no number
lua_tonumber(v) ==
    CASE v = "n0" -> 0
      [] v = "n1" -> 1
      [] v = "nbig" -> Pow2(FLT_MANT_DIG) + 1
      [] OTHER -> 0

\* the spacing of single precision values around x >= 0
RECURSIVE Ulp(_, _)
Ulp(x, q) == IF x < Pow2(FLT_MANT_DIG) * q THEN q ELSE Ulp(x, 2 * q)

\* (float)x for an integral double x >= 0: round to nearest, ties to even
ToFloat(x) ==
    LET q == Ulp(x, 1)
        r == x % q
        down == x - r
    IN  IF r = 0 THEN x
        ELSE IF 2 * r < q THEN down
        ELSE IF 2 * r > q THEN down + q
        ELSE IF (down \div q) % 2 = 0 THEN down ELSE down + q

\* the button mask of each frame-params record (ga_frame_params::_button_mask)
ButtonMask(p) == IF p = "pA" THEN {"j"} ELSE IF p = "pB" THEN {"l"} ELSE {}

VARIABLES
    \* ---- ga_lua_component
    pc,          \* "unconstructed", "idle", "in_script", "aborted", "crashed", "destroyed"
    script,      \* what the script file did at load: [loadable, err, update, natives]
    ndebug,      \* TRUE when the build defines NDEBUG (assert compiles to nothing)
    lua,         \* the member _lua: "null" or "L"
    interp,      \* the interpreter state: [status, closes, update, registered,
                 \* registrations, stack]
    entity,      \* the owning entity: [pos, translations]
    diags,       \* what was written to std::cerr, in order
    frames,      \* calls of ga_lua_component::update so far
    curParams,   \* the frame-params record given to the last call of update
    steps,       \* script steps taken so far
    errors,      \* errors the script raised inside update so far
    scriptCalls, \* script functions the host invoked: [count, fn, args] (the last)
    lastCall     \* the last native call of the running invocation of update

luaVars == <<pc, script, ndebug, lua, interp, entity, diags, frames, curParams,
             steps, errors, scriptCalls, lastCall>>

VARIABLES
    \* ---- ga_model_component
    mpc,         \* "unconstructed", "constructed", "crashed", "destroyed"
    scene,       \* what the importer returned for the model file (_scene)
    meshes,      \* the ga_mesh objects the component allocated (_meshes), in order
    nodes,       \* the ga_node objects: nodes[1] is the member _root
    gpu,         \* the GL names generated and the GL names deleted
    mlog,        \* what was written to std::cout, in order
    mentity,     \* the world transform of the owning entity
    mframes,     \* calls of ga_model_component::update so far
    drawcalls,   \* the draw calls the last update submitted
    passes       \* traversals run from the root so far: [update, draw]

modelVars == <<mpc, scene, meshes, nodes, gpu, mlog, mentity, mframes, drawcalls,
               passes>>

vars == <<luaVars, modelVars>>

\* ------------------------------------------------- the script (environment)
\* Statements of the top-level chunk: define or assign the global update,
\* raise an error, call one of the native callables by its global name.
ChunkOps == {"def_update", "set_nonfunc", "raise", "call_native"}

RECURSIVE SeqsUpTo(_, _)
SeqsUpTo(S, n) ==
    IF n = 0 THEN {<<>>}
    ELSE LET shorter == SeqsUpTo(S, n - 1)
         IN  shorter \cup {Append(q, x) : q \in shorter, x \in S}

Scripts == [loadable : BOOLEAN, chunk : SeqsUpTo(ChunkOps, MaxChunkOps)]

\* The first arguments and the numbers a script passes to a native callable.
FirstVals == {"self", "ent", "pA", "n1"}
Deltas == {<<"n1", "n0", "nbig">>, <<"nbig", "n1", "n0">>}

\* n arguments: first, then rest[1..3], then "n0"
ArgList(n, first, rest) ==
    [k \in 1..n |-> IF k = 1 THEN first ELSE IF k <= 4 THEN rest[k - 1] ELSE "n0"]

\* What a script passes to a getter: nothing, one value of any kind, or a
\* frame-params handle followed by numbers.
GetterArgLists ==
    {<<>>} \cup {<<a>> : a \in FirstVals}
           \cup {ArgList(n, "pA", <<b, b, b>>) : n \in 2..MaxArgs, b \in {"n0", "n1"}}

\* What a script passes to entity_translate: a first value of any kind and a
\* delta, or some other number of arguments.
TranslateArgLists ==
    {ArgList(4, a, d) : a \in FirstVals, d \in Deltas}
        \cup {ArgList(n, "ent", <<"n1", "n1", "n1">>) : n \in (0..MaxArgs) \ {4}}

\* ------------------------------------------------------- interpreter state
NoInterp == [status |-> "none", closes |-> 0, update |-> "nil",
             registered |-> {}, registrations |-> 0, stack |-> <<>>]

\* (variant: the native callables are registered when the state is created)
luaL_newstate_registered ==
    [status |-> "open", closes |-> 0, update |-> "nil", registered |-> NativeNames,
     registrations |-> Cardinality(NativeNames), stack |-> <<>>]

\* luaL_newstate, luaL_openlibs
luaL_newstate == [status |-> "open", closes |-> 0, update |-> "nil",
                  registered |-> {}, registrations |-> 0, stack |-> <<>>]

\* lua_close: the state and all it holds are freed; closes and registrations
\* count the calls of lua_close and lua_register made on the state
lua_close(i) == [status |-> "closed", closes |-> i.closes + 1, update |-> "nil",
                 registered |-> {}, registrations |-> i.registrations, stack |-> <<>>]

\* lua_pcall of the loaded chunk: statements run in order until one raises;
\* calling a global that is not registered raises ("attempt to call a nil value");
\* natives counts the calls of a native callable that found it
RECURSIVE RunChunk(_, _, _)
RunChunk(chunk, upd, registered) ==
    IF chunk = <<>> THEN [update |-> upd, err |-> FALSE, msg |-> NoValue, natives |-> 0]
    ELSE LET op == Head(chunk)
         IN  CASE op = "def_update" -> RunChunk(Tail(chunk), "F1", registered)
               [] op = "set_nonfunc" -> RunChunk(Tail(chunk), "nonfunc", registered)
               [] op = "raise" -> [update |-> upd, err |-> TRUE, msg |-> "script_error",
                                   natives |-> 0]
               [] op = "call_native" ->
                    IF NativeNames \subseteq registered
                    THEN [RunChunk(Tail(chunk), upd, registered) EXCEPT !.natives = @ + 1]
                    ELSE [update |-> upd, err |-> TRUE, msg |-> "call_nil", natives |-> 0]

\* ------------------------------------------------------------------ entity
\* ga_entity::translate: the position moves by vec, in single precision
Translate(e, vec) ==
    [pos |-> [k \in 1..3 |-> ToFloat(e.pos[k] + vec[k])],
     translations |-> e.translations + 1]

NoScript == [loadable |-> FALSE, err |-> FALSE, update |-> NoValue, natives |-> 0]

NoCall == [fn |-> NoValue, args |-> <<>>, ret |-> NoValue, diag |-> FALSE,
           deref |-> NoValue]

\* --------------------------------------------------------------------- Init
LuaInit ==
    /\ pc = "unconstructed"
    /\ script = NoScript
    /\ ndebug \in BOOLEAN
    /\ lua = "null"
    /\ interp = NoInterp
    /\ entity = [pos |-> <<0, 0, 0>>, translations |-> 0]
    /\ diags = <<>>
    /\ frames = 0
    /\ curParams = NoValue
    /\ steps = 0
    /\ errors = 0
    /\ scriptCalls = [count |-> 0, fn |-> NoValue, args |-> <<>>]
    /\ lastCall = NoCall

\* ------------------------------------------------------ ga_lua_component
\* (variant: the failure exit closes the state but keeps the pointer)
CtorFail_dangling(i, d) ==
    /\ diags' = Append(diags, d)
    /\ interp' = lua_close(i)
    /\ lua' = "L"

\* The failure exits of the constructor: diagnostic, lua_close, _lua = nullptr
CtorFail(i, d) ==
    /\ diags' = Append(diags, d)
    /\ interp' = lua_close(i)
    /\ lua' = "null"

\* lua_register x 4
RegisterNatives(i) ==
    [i EXCEPT !.registered = NativeNames,
              !.registrations = @ + Cardinality(NativeNames)]

\* ga_lua_component::ga_lua_component
Construct(file) ==
    /\ pc = "unconstructed"
    /\ UNCHANGED modelVars
    /\ pc' = "idle"
    /\ LET fresh == luaL_newstate
       IN  IF ~file.loadable
           THEN \* luaL_loadfile pushed its error message
                /\ CtorFail([fresh EXCEPT !.stack = <<"load_error">>],
                            <<"Failed to load script", "load_error">>)
                /\ script' = [NoScript EXCEPT !.loadable = FALSE]
           ELSE LET r == RunChunk(file.chunk, "nil", fresh.registered)
                    \* lua_pcall popped the chunk; an error leaves its message
                    afterCall == IF r.err THEN <<r.msg>> ELSE <<>>
                    \* lua_getglobal(_lua, "update")
                    pushed == Append(afterCall, r.update)
                    top == Len(pushed)
                IN  /\ script' = [loadable |-> TRUE, err |-> r.err, update |-> r.update,
                                   natives |-> r.natives]
                    /\ IF top = 0 \/ ~lua_isfunction(pushed[top])
                       THEN CtorFail([fresh EXCEPT !.stack = pushed, !.update = r.update],
                                     <<"does not contain 'update' function", NoValue>>)
                       ELSE
                         /\ interp' = RegisterNatives(
                                [fresh EXCEPT !.stack = SubSeq(pushed, 1, top - 1),
                                              !.update = r.update])
                         /\ lua' = "L"
                         /\ UNCHANGED diags
    /\ UNCHANGED <<ndebug, entity, frames, curParams, steps, errors, scriptCalls, lastCall>>

\* (variant: the destructor closes the state without looking at _lua)
Destroy_unconditional ==
    /\ pc = "idle"
    /\ UNCHANGED modelVars
    /\ pc' = "destroyed"
    /\ interp' = lua_close(interp)
    /\ UNCHANGED <<script, ndebug, lua, entity, diags, frames, curParams, steps, errors,
                   scriptCalls, lastCall>>

\* ga_lua_component::~ga_lua_component
Destroy ==
    /\ pc = "idle"
    /\ UNCHANGED modelVars
    /\ pc' = "destroyed"
    /\ interp' = IF lua # "null" THEN lua_close(interp) ELSE interp
    /\ UNCHANGED <<script, ndebug, lua, entity, diags, frames, curParams, steps, errors,
                   scriptCalls, lastCall>>

\* (variant: the two handles are pushed in the other order)
PushedArgs_swapped(p) == <<p, "self">>

\* The arguments update pushes for the script: this, then params
PushedArgs(p) == <<"self", p>>

\* update, after lua_pcall returned a non-zero status: the message is on top of
\* the stack, it is written to std::cerr, then assert(0)
PcallFailed(msg) ==
    /\ interp' = [interp EXCEPT !.stack = Append(@, msg)]
    /\ diags' = Append(diags, <<"Error", msg>>)
    /\ pc' = IF ndebug THEN "idle" ELSE "aborted"

\* (variant: update calls the function found at load time)
UpdateCall_cached(p) ==
    /\ pc = "idle"
    /\ UNCHANGED modelVars
    /\ frames < MaxFrames
    /\ frames' = frames + 1
    /\ curParams' = p
    /\ IF lua = "null"
       THEN UNCHANGED <<pc, interp, diags, scriptCalls>>
       ELSE /\ pc' = "in_script"
            /\ scriptCalls' = [count |-> scriptCalls.count + 1, fn |-> script.update,
                               args |-> PushedArgs(p)]
            /\ UNCHANGED <<interp, diags>>
    /\ UNCHANGED <<script, ndebug, lua, entity, steps, errors, lastCall>>

\* ga_lua_component::update, up to the entry of the script's function
UpdateCall(p) ==
    /\ pc = "idle"
    /\ UNCHANGED modelVars
    /\ frames < MaxFrames
    /\ frames' = frames + 1
    /\ curParams' = p
    /\ IF lua = "null"
       THEN UNCHANGED <<pc, interp, diags, scriptCalls>>
       ELSE LET f == interp.update
            IN  IF lua_isfunction(f)
                THEN /\ pc' = "in_script"
                     /\ scriptCalls' = [count |-> scriptCalls.count + 1, fn |-> f,
                                        args |-> PushedArgs(p)]
                     /\ UNCHANGED <<interp, diags>>
                ELSE \* lua_pcall of a non-function fails without calling anything
                     /\ PcallFailed("call_nil")
                     /\ UNCHANGED scriptCalls
    /\ UNCHANGED <<script, ndebug, lua, entity, steps, errors, lastCall>>

\* ga_lua_component::update, from the return of lua_pcall
UpdateReturn(err) ==
    /\ pc = "in_script"
    /\ UNCHANGED modelVars
    /\ IF err
       THEN PcallFailed("script_error")
       ELSE /\ pc' = "idle"
            /\ UNCHANGED <<interp, diags>>
    /\ lastCall' = NoCall
    /\ errors' = IF err THEN errors + 1 ELSE errors
    /\ UNCHANGED <<script, ndebug, lua, entity, frames, curParams, steps, scriptCalls>>

\* The script assigns the global update
ScriptRebind(v) ==
    /\ pc = "in_script"
    /\ UNCHANGED modelVars
    /\ steps < MaxSteps
    /\ steps' = steps + 1
    /\ interp' = [interp EXCEPT !.update = v]
    /\ UNCHANGED <<pc, script, ndebug, lua, entity, diags, frames, curParams,
                   errors, scriptCalls, lastCall>>

\* ------------------------------------------------------- native callables
\* A native callable returns to the script: the call is recorded, a
\* diagnostic is written when diag is TRUE, the script continues.
NativeReturns(fn, args, ret, diag, deref) ==
    /\ lastCall' = [fn |-> fn, args |-> args, ret |-> ret, diag |-> diag /= NoValue,
                    deref |-> deref]
    /\ diags' = IF diag /= NoValue THEN Append(diags, <<diag, fn>>) ELSE diags
    /\ UNCHANGED pc

\* The process dies inside a native callable (invalid memory access)
NativeCrashes(fn, args, diag, deref) ==
    /\ lastCall' = [fn |-> fn, args |-> args, ret |-> NoValue, diag |-> diag /= NoValue,
                    deref |-> deref]
    /\ diags' = IF diag /= NoValue THEN Append(diags, <<diag, fn>>) ELSE diags
    /\ pc' = "crashed"

\* "return 1" with nothing pushed: Lua takes the top of the C frame as the
\* result, the last argument; with no argument the frame is empty and the slot
\* read is not one of the frame (an API violation)
ReturnsUnpushed(fn, args, diag) ==
    IF Len(args) > 0
    THEN NativeReturns(fn, args, args[Len(args)], diag, NoValue)
    ELSE \/ \E v \in UndefVals : NativeReturns(fn, args, v, diag, NoValue)
         \/ NativeCrashes(fn, args, diag, NoValue)

\* lua_pushboolean
lua_pushboolean(b) == IF b THEN "true" ELSE "false"

\* lua_frame_params_get_input_left / _right: button is k_button_j / k_button_l
GetInput(fn, button, args) ==
    LET arg_count == Len(args)
    IN  IF arg_count = 1
        THEN LET params == args[1]
             IN  IF params \in ParamsHandles
                 THEN NativeReturns(fn, args,
                          lua_pushboolean(button \in ButtonMask(params)), NoValue, params)
                 ELSE \* not a ga_frame_params: the read of _button_mask is invalid
                      \/ \E b \in BOOLEAN :
                           NativeReturns(fn, args, lua_pushboolean(b), NoValue, params)
                      \/ NativeCrashes(fn, args, NoValue, params)
        ELSE ReturnsUnpushed(fn, args, "expected 1 argument")

NativeStep(fn) ==
    /\ pc = "in_script"
    /\ UNCHANGED modelVars
    /\ steps < MaxSteps
    /\ fn \in interp.registered
    /\ steps' = steps + 1
    /\ UNCHANGED <<script, ndebug, lua, interp, frames, curParams, errors,
                   scriptCalls>>

\* ga_lua_component::lua_frame_params_get_input_left
lua_frame_params_get_input_left(args) ==
    /\ NativeStep("frame_params_get_input_left")
    /\ GetInput("frame_params_get_input_left", "j", args)
    /\ UNCHANGED entity

\* ga_lua_component::lua_frame_params_get_input_right
lua_frame_params_get_input_right(args) ==
    /\ NativeStep("frame_params_get_input_right")
    /\ GetInput("frame_params_get_input_right", "l", args)
    /\ UNCHANGED entity

\* ga_lua_component::lua_component_get_entity
lua_component_get_entity(args) ==
    LET fn == "component_get_entity"
        arg_count == Len(args)
    IN  /\ NativeStep(fn)
        /\ UNCHANGED entity
        /\ IF arg_count = 1
           THEN LET component == args[1]
                IN  IF component = "self"
                    THEN NativeReturns(fn, args, "ent", NoValue, component)
                    ELSE \* not a ga_lua_component: get_entity() reads invalid memory
                         \/ NativeReturns(fn, args, "garbage", NoValue, component)
                         \/ NativeCrashes(fn, args, NoValue, component)
           ELSE ReturnsUnpushed(fn, args, "expected 1 argument")

\* (variant: the vector is read from stack indices 1..3)
TranslateVec_shifted(args) == [k \in 1..3 |-> ToFloat(lua_tonumber(args[k]))]

\* the vector entity_translate builds from arguments 2..4
TranslateVec(args) == [k \in 1..3 |-> ToFloat(lua_tonumber(args[k + 1]))]

\* ga_lua_component::lua_entity_translate
lua_entity_translate(args) ==
    LET fn == "entity_translate"
        arg_count == Len(args)
    IN  /\ NativeStep(fn)
        /\ IF arg_count = 4
           THEN LET ent == args[1]
                IN  IF ent = "ent"
                    THEN /\ entity' = Translate(entity, TranslateVec(args))
                         /\ NativeReturns(fn, args, NoValue, NoValue, ent)
                    ELSE \* not a ga_entity: translate() writes invalid memory
                         /\ UNCHANGED entity
                         /\ \/ NativeReturns(fn, args, NoValue, NoValue, ent)
                            \/ NativeCrashes(fn, args, NoValue, ent)
           ELSE /\ UNCHANGED entity
                /\ NativeReturns(fn, args, NoValue, "expected 4 arguments", NoValue)

\* ===================================================================
\* ga_mesh and ga_model_component
\* ===================================================================
\* A transform is a 2x2 matrix <<a, b, c, d>>, rows first.
Identity == <<1, 0, 0, 1>>
Mul(m, n) == <<m[1] * n[1] + m[2] * n[3], m[1] * n[2] + m[2] * n[4],
               m[3] * n[1] + m[4] * n[3], m[3] * n[2] + m[4] * n[4]>>
\* ga_mat4f::transpose
Transpose(m) == <<m[1], m[3], m[2], m[4]>>
\* ai_mat4_to_ga_mat4: every element is copied to the same row and column
ai_mat4_to_ga_mat4(in_mat) == [k \in 1..4 |-> in_mat[k]]

\* ---------------------------------------------------- the imported scene
\* Faces are lines, triangles and quads.
FaceSizes == {2, 3, 4}
\* A node references one mesh of the scene, or all of them, last first.
RefModes == {"own", "all"}
EntityTransforms == {Identity, <<1, 1, 0, 1>>}
\* what a read past the end of a face's index array may yield
GarbageIndices == {0, 99}

\* rotate a sequence left by r
Rot(q, r) == [k \in 1..Len(q) |-> q[((k - 1 + r) % Len(q)) + 1]]

\* the faces of a mesh whose faces have the given sizes
AiFaces(sizes) == [f \in 1..Len(sizes) |-> [k \in 1..sizes[f] |-> f + k - 2]]

\* mesh k of a scene built on the face sizes `sizes`
AiMesh(sizes, k) ==
    [faces |-> AiFaces(Rot(sizes, k - 1)), textured |-> (k % 2 = 0)]

RECURSIVE Ascending(_)
Ascending(S) ==
    IF S = {} THEN <<>>
    ELSE LET lo == CHOOSE x \in S : \A y \in S : x <= y
         IN  <<lo>> \o Ascending(S \ {lo})

\* the parent of every node but the root (node 1)
ParentMaps(n) == {pm \in [2..n -> 1..n] : \A i \in 2..n : pm[i] < i}

AiNode(i, n, pm, nm, mode) ==
    [children |-> Ascending({j \in 2..n : pm[j] = i}),
     meshes |-> IF nm = 0 THEN <<>>
                ELSE IF mode = "own" THEN <<((i - 1) % nm) + 1>>
                ELSE [k \in 1..nm |-> nm + 1 - k],
     transform |-> <<1, i, 0, 1>>,
     name |-> i]

NullScene == [loaded |-> FALSE, meshes |-> <<>>, nodes |-> <<>>]

Scenes ==
    {[loaded |-> TRUE,
      meshes |-> [k \in 1..nm |-> AiMesh(sizes, k)],
      nodes |-> [i \in 1..Len(pm) + 1 |->
                    AiNode(i, Len(pm) + 1,
                           [j \in 2..Len(pm) + 1 |-> pm[j - 1]], nm, mode)]] :
        sizes \in SeqsUpTo(FaceSizes, MaxFaces), nm \in 0..MaxMeshes,
        pm \in UNION {{[j \in 1..n - 1 |-> q[j + 1]] : q \in ParentMaps(n)} :
                        n \in 1..MaxNodes},
        mode \in RefModes}

\* ------------------------------------------------------------------ ga_mesh
NullMaterial == [kind |-> "null", id |-> 0]

\* ga_mesh::ga_mesh: _vbo is left as it is
ga_mesh == [index_array |-> <<>>, index_count |-> 0, material |-> NullMaterial,
            vao |-> 0, vbo |-> <<"indeterminate", "indeterminate">>]

\* face.mIndices[k - 1]: past the end of the array the value is not defined
FaceIndex(face, k, g) == IF k <= Len(face) THEN face[k] ELSE g

RECURSIVE LoadIndices(_, _, _)
\* the "load indices" loop of create_from_aiMesh: [indices, log]
LoadIndices(faces, acc, g) ==
    IF faces = <<>> THEN acc
    ELSE LET face == Head(faces)
             pushed == acc.indices \o <<FaceIndex(face, 1, g), FaceIndex(face, 2, g),
                                        FaceIndex(face, 3, g)>>
             logged == IF Len(face) > 3
                       THEN Append(acc.log, <<"Face with more than 3 verts", Len(face)>>)
                       ELSE acc.log
         IN  LoadIndices(Tail(faces), [indices |-> pushed, log |-> logged], g)

\* ga_mesh::create_from_aiMesh: [mesh, log]; id names the material allocated
create_from_aiMesh(m, aimesh, id, g) ==
    LET loaded == LoadIndices(aimesh.faces, [indices |-> m.index_array, log |-> <<>>], g)
    IN  [mesh |-> [m EXCEPT !.index_array = loaded.indices,
                            !.material = [kind |-> IF aimesh.textured
                                                   THEN "ga_lit_texture_material"
                                                   ELSE "ga_lit_material",
                                          id |-> id]],
         log |-> loaded.log]

\* TRUE when create_from_aiMesh reads past the end of a face of aimesh
ReadsPastFace(aimesh) == \E f \in 1..Len(aimesh.faces) : Len(aimesh.faces[f]) < 3

NoGpu == [vaos |-> 0, buffers |-> 0, deleted |-> <<>>]

\* (variant: the index count is not recorded)
make_buffers_nocount(m, g) ==
    [mesh |-> [m EXCEPT !.vao = <<"vao", g.vaos + 1>>,
                        !.vbo = <<<<"buffer", g.buffers + 1>>, <<"buffer", g.buffers + 2>>>>],
     gpu |-> [g EXCEPT !.vaos = @ + 1, !.buffers = @ + 2]]

\* ga_mesh::make_buffers: [mesh, gpu]; one vertex array and two buffers are
\* generated, _index_count is set
make_buffers(m, g) ==
    [mesh |-> [m EXCEPT !.vao = <<"vao", g.vaos + 1>>,
                        !.vbo = <<<<"buffer", g.buffers + 1>>, <<"buffer", g.buffers + 2>>>>,
                        !.index_count = Len(m.index_array)],
     gpu |-> [g EXCEPT !.vaos = @ + 1, !.buffers = @ + 2]]

\* ga_mesh::~ga_mesh: glDeleteBuffers(2, _vbo), glDeleteVertexArrays(1, &_vao)
ga_mesh_destroy(m, g) ==
    [g EXCEPT !.deleted = @ \o <<m.vbo[1], m.vbo[2], m.vao>>]

\* ga_mesh::assemble_drawcall
assemble_drawcall(m) ==
    [vao |-> m.vao, index_count |-> m.index_count, draw_mode |-> "GL_TRIANGLES",
     material |-> m.material]

\* ------------------------------------------------------------------ ga_node
\* ga_node::ga_node(parent)
ga_node(parent) ==
    [parent |-> parent, name |-> 0, transform |-> Identity, world |-> Identity,
     meshes |-> <<>>, children |-> <<>>, stamp |-> 0]

RECURSIVE NodeUpdate(_, _, _, _)
RECURSIVE ChildrenUpdate(_, _, _, _, _)
\* ga_node::update: world = local x parent world, then the children, pre-order;
\* stamp records the frame of the traversal
NodeUpdate(heap, n, parentWorld, frame) ==
    LET w == Mul(heap[n].transform, parentWorld)
    IN  ChildrenUpdate([heap EXCEPT ![n].world = w, ![n].stamp = frame], n, 1, w, frame)
ChildrenUpdate(heap, n, i, w, frame) ==
    IF i > Len(heap[n].children) THEN heap
    ELSE ChildrenUpdate(NodeUpdate(heap, heap[n].children[i], w, frame), n, i + 1, w,
                        frame)

RECURSIVE NodeDraw(_, _, _)
RECURSIVE ChildrenDraw(_, _, _, _)
\* ga_node::draw_recursive: one draw call per mesh of the node, carrying the
\* node's world transform, then the children, pre-order
NodeDraw(heap, ms, n) ==
    [k \in 1..Len(heap[n].meshes) |->
        [call |-> assemble_drawcall(ms[heap[n].meshes[k]]), node |-> n,
         transform |-> heap[n].world, stamp |-> heap[n].stamp]]
    \o ChildrenDraw(heap, ms, n, 1)
ChildrenDraw(heap, ms, n, i) ==
    IF i > Len(heap[n].children) THEN <<>>
    ELSE NodeDraw(heap, ms, heap[n].children[i]) \o ChildrenDraw(heap, ms, n, i + 1)

\* ------------------------------------------------------ ga_model_component
\* (variant: the child is put in front of its siblings)
LinkChild_front(heap, n, child_node) ==
    [heap EXCEPT ![n].children = <<child_node>> \o @]

\* node->_children.push_back(child_node)
LinkChild(heap, n, child_node) ==
    [heap EXCEPT ![n].children = Append(@, child_node)]

RECURSIVE process_node_recursive(_, _, _, _)
RECURSIVE ProcessChildren(_, _, _, _, _)
\* ga_model_component::process_node_recursive: the heap of native nodes after
\* imported node ai was processed into native node n
process_node_recursive(heap, sc, ai, n) ==
    LET ai_node == sc.nodes[ai]
        filled == [heap EXCEPT
                     ![n].transform = Transpose(ai_mat4_to_ga_mat4(ai_node.transform)),
                     ![n].name = ai_node.name,
                     ![n].meshes = @ \o ai_node.meshes]
    IN  ProcessChildren(filled, sc, ai, n, 1)
\* the "process my children" loop, from child i on
ProcessChildren(heap, sc, ai, n, i) ==
    IF i > Len(sc.nodes[ai].children) THEN heap
    ELSE LET child_node == Len(heap) + 1
             allocated == Append(heap, ga_node(n))
             processed == process_node_recursive(allocated, sc, sc.nodes[ai].children[i],
                                                 child_node)
             linked == LinkChild(processed, n, child_node)
         IN  ProcessChildren(linked, sc, ai, n, i + 1)

RECURSIVE BuildMeshes(_, _, _, _)
\* (variant: the buffers of a mesh are made before the mesh is populated)
BuildMeshes_early(sc, i, acc, g) ==
    IF i > Len(sc.meshes) THEN acc
    ELSE LET built == make_buffers(ga_mesh, acc.gpu)
             created == create_from_aiMesh(built.mesh, sc.meshes[i], i, g)
         IN  BuildMeshes(sc, i + 1,
                         [meshes |-> Append(acc.meshes, created.mesh),
                          gpu |-> built.gpu,
                          log |-> acc.log \o created.log], g)

\* the "process the meshes" loop of the constructor, from mesh i on:
\* acc is [meshes, gpu, log]
BuildMeshes(sc, i, acc, g) ==
    IF i > Len(sc.meshes) THEN acc
    ELSE LET created == create_from_aiMesh(ga_mesh, sc.meshes[i], i, g)
             built == make_buffers(created.mesh, acc.gpu)
         IN  BuildMeshes(sc, i + 1,
                         [meshes |-> Append(acc.meshes, built.mesh),
                          gpu |-> built.gpu,
                          log |-> acc.log \o created.log], g)

ModelInit ==
    /\ mpc = "unconstructed"
    /\ scene = NullScene
    /\ meshes = <<>>
    /\ nodes = <<ga_node(0)>>
    /\ gpu = NoGpu
    /\ mlog = <<>>
    /\ mentity \in EntityTransforms
    /\ mframes = 0
    /\ drawcalls = <<>>
    /\ passes = [update |-> 0, draw |-> 0]

\* (variant: the failed import is not reported)
ImportFailed_silent == UNCHANGED <<meshes, nodes, gpu, mlog>>

\* the constructor when the importer returned no scene
ImportFailed ==
    /\ mlog' = Append(mlog, <<"error: couldn't load obj", 0>>)
    /\ UNCHANGED <<meshes, nodes, gpu>>

\* the constructor when the importer returned a scene
ImportSucceeded(sc, g) ==
    LET built == BuildMeshes(sc, 1, [meshes |-> meshes, gpu |-> gpu, log |-> <<>>], g)
    IN  /\ meshes' = built.meshes
        /\ gpu' = built.gpu
        /\ mlog' = (Append(mlog, <<"number of meshes", Len(sc.meshes)>>)) \o built.log
        /\ nodes' = process_node_recursive(nodes, sc, 1, 1)

\* ga_model_component::ga_model_component
ModelConstruct(sc, g) ==
    /\ mpc = "unconstructed"
    /\ UNCHANGED luaVars
    /\ scene' = sc
    /\ UNCHANGED <<mentity, mframes, drawcalls, passes>>
    /\ IF ~sc.loaded
       THEN ImportFailed /\ mpc' = "constructed"
       ELSE \/ ImportSucceeded(sc, g) /\ mpc' = "constructed"
            \/ \* a read past the end of a face may also end the process
               /\ \E k \in 1..Len(sc.meshes) : ReadsPastFace(sc.meshes[k])
               /\ mpc' = "crashed"
               /\ UNCHANGED <<meshes, nodes, gpu, mlog>>

\* (variant: the scene graph is drawn before it is updated)
ModelUpdate_drawFirst ==
    /\ mpc = "constructed"
    /\ UNCHANGED luaVars
    /\ mframes < MaxModelFrames
    /\ mframes' = mframes + 1
    /\ drawcalls' = NodeDraw(nodes, meshes, 1)
    /\ nodes' = NodeUpdate(nodes, 1, mentity, mframes + 1)
    /\ passes' = [update |-> passes.update + 1, draw |-> passes.draw + 1]
    /\ UNCHANGED <<mpc, scene, meshes, gpu, mlog, mentity>>

\* ga_model_component::update
ModelUpdate ==
    /\ mpc = "constructed"
    /\ UNCHANGED luaVars
    /\ mframes < MaxModelFrames
    /\ mframes' = mframes + 1
    /\ LET updated == NodeUpdate(nodes, 1, mentity, mframes + 1)
       IN  /\ nodes' = updated
           /\ drawcalls' = NodeDraw(updated, meshes, 1)
    /\ passes' = [update |-> passes.update + 1, draw |-> passes.draw + 1]
    /\ UNCHANGED <<mpc, scene, meshes, gpu, mlog, mentity>>

\* Another component of the entity moves it between two frames
EntityMoves(t) ==
    /\ mpc = "constructed"
    /\ UNCHANGED luaVars
    /\ t /= mentity
    /\ mentity' = t
    /\ UNCHANGED <<mpc, scene, meshes, nodes, gpu, mlog, mframes, drawcalls, passes>>

\* ga_model_component::~ga_model_component: the body is empty; the members go:
\* _root with the nodes it owns, and _meshes, a vector of pointers
ModelDestroy ==
    /\ mpc = "constructed"
    /\ UNCHANGED luaVars
    /\ mpc' = "destroyed"
    /\ nodes' = <<>>
    /\ UNCHANGED <<scene, meshes, gpu, mlog, mentity, mframes, drawcalls, passes>>

\* the model component, never constructed
ModelIdle ==
    /\ mpc = "unconstructed"
    /\ scene = NullScene
    /\ meshes = <<>>
    /\ nodes = <<ga_node(0)>>
    /\ gpu = NoGpu
    /\ mlog = <<>>
    /\ mentity = Identity
    /\ mframes = 0
    /\ drawcalls = <<>>
    /\ passes = [update |-> 0, draw |-> 0]

\* the Lua component, never constructed
LuaIdle == LuaInit /\ ndebug = FALSE

\* --------------------------------------------------------------------- Next
Next ==
    \/ \E file \in Scripts : Construct(file)
    \/ \E p \in ParamsHandles : UpdateCall(p)
    \/ \E v \in UpdateBindings : ScriptRebind(v)
    \/ \E args \in GetterArgLists : lua_frame_params_get_input_left(args)
    \/ \E args \in GetterArgLists : lua_frame_params_get_input_right(args)
    \/ \E args \in GetterArgLists : lua_component_get_entity(args)
    \/ \E args \in TranslateArgLists : lua_entity_translate(args)
    \/ \E err \in BOOLEAN : UpdateReturn(err)
    \/ Destroy

\* the Lua component before construction; no model component in the program
Init == LuaInit /\ ModelIdle

Spec == Init /\ [][Next]_vars

ModelNext ==
    \/ \E sc \in Scenes \cup {NullScene}, g \in GarbageIndices : ModelConstruct(sc, g)
    \/ ModelUpdate
    \/ \E t \in EntityTransforms : EntityMoves(t)
    \/ ModelDestroy

\* the model component before construction; no Lua component in the program
ModelSpecInit == ModelInit /\ LuaIdle

ModelSpec == ModelSpecInit /\ [][ModelNext]_vars

\* ===================================================================
\* Properties of ga_lua_component (checked under Spec)
\* ===================================================================
Constructed == pc /= "unconstructed"
Loaded == Constructed /\ lua /= "null"
Failed == Constructed /\ lua = "null"
\* a step that is a call of ga_lua_component::update
IsUpdateCall == pc = "idle" /\ frames' = frames + 1
\* a step that is a call of a native callable
IsNativeCall == pc = "in_script" /\ lastCall' /= lastCall /\ lastCall'.fn /= NoValue
GetterNames == NativeNames \ {"entity_translate"}
LastDiag == diags[Len(diags)]

\* C1: when construction fails (the file does not load, or the global update is
\* not a function after the chunk ran) the interpreter is closed and _lua is
\* null; from then on _lua stays null and every call of update changes nothing:
\* no script function is invoked, the entity is not touched, nothing is written,
\* the process neither aborts nor crashes.
C1_FailedIsTerminalNoOp ==
    /\ [](Constructed /\ (~script.loadable \/ ~lua_isfunction(script.update))
            => lua = "null" /\ interp.status = "closed" /\ interp.closes = 1)
    /\ [][Failed => lua' = "null"]_vars
    /\ [][Failed /\ IsUpdateCall
            => /\ pc' = "idle"
               /\ UNCHANGED <<interp, entity, diags, scriptCalls, lastCall, steps,
                              errors>>]_vars

\* C1 witness: a script without update was loaded and update was called twice
C1_Witness ==
    /\ Failed
    /\ script.loadable
    /\ ~lua_isfunction(script.update)
    /\ frames >= 2
    /\ pc = "idle"

C3_Original ==
    [][IsNativeCall /\ lastCall'.fn \in GetterNames /\ Len(lastCall'.args) /= 1
        => /\ lastCall'.diag
           /\ lastCall'.deref = NoValue
           /\ pc' = "in_script"
           /\ (lastCall.fn = lastCall'.fn /\ Len(lastCall.args) /= 1
                 => lastCall'.ret = lastCall.ret)]_vars

\* the delta a script passed to entity_translate, as the numbers it wrote
GivenDelta(args) == [k \in 1..3 |-> lua_tonumber(args[k + 1])]

\* C4 (as stated): entity_translate with 4 arguments, the first the entity,
\* moves the entity by exactly (dx, dy, dz), once, and returns nothing; with
\* any other count the entity is unchanged, a diagnostic is written and
\* nothing is returned.
C4_Original ==
    [][IsNativeCall /\ lastCall'.fn = "entity_translate"
        => /\ lastCall'.ret = NoValue
           /\ IF Len(lastCall'.args) = 4
              THEN lastCall'.args[1] = "ent" /\ pc' = "in_script"
                     => /\ entity'.pos = [k \in 1..3 |->
                                entity.pos[k] + GivenDelta(lastCall'.args)[k]]
                        /\ entity'.translations = entity.translations + 1
                        /\ ~lastCall'.diag
              ELSE entity' = entity /\ lastCall'.diag]_vars

\* C4 (amended): as C4, but the entity moves by (dx, dy, dz) each converted to
\* single precision, the sum being taken in single precision.
C4_TranslateInSinglePrecision ==
    [][IsNativeCall /\ lastCall'.fn = "entity_translate"
        => /\ lastCall'.ret = NoValue
           /\ IF Len(lastCall'.args) = 4
              THEN lastCall'.args[1] = "ent" /\ pc' = "in_script"
                     => /\ entity'.pos = [k \in 1..3 |->
                                ToFloat(entity.pos[k]
                                        + ToFloat(GivenDelta(lastCall'.args)[k]))]
                        /\ entity'.translations = entity.translations + 1
                        /\ ~lastCall'.diag
              ELSE entity' = entity /\ lastCall'.diag]_vars

\* C4 witness: the entity was translated twice, the last time by a delta that
\* single precision cannot hold
C4_Witness ==
    /\ lastCall.fn = "entity_translate"
    /\ lastCall.args = <<"ent", "nbig", "n1", "n0">>
    /\ entity.translations = 2
    /\ pc = "in_script"

\* C5 (as stated): an error raised by the script's update stays inside the
\* protected call, its message is written as a diagnostic, and no script
\* function is invoked in any later frame.
C5_Original ==
    /\ [][errors' > errors
            => /\ pc' \in {"idle", "aborted"}
               /\ Len(diags') = Len(diags) + 1
               /\ diags'[Len(diags')] = <<"Error", "script_error">>]_vars
    /\ [][errors > 0 => scriptCalls'.count = scriptCalls.count]_vars

C15_NativesRegisteredAfterValidation ==
    /\ []((Loaded /\ interp.status = "open")
            => /\ interp.registered = NativeNames
               /\ interp.registrations = Cardinality(NativeNames)
               /\ lua_isfunction(script.update))
    /\ [](script.natives = 0)
    /\ [](Failed => interp.registrations = 0 /\ interp.registered = {})
    /\ [](pc = "unconstructed" => interp.registrations = 0)
    /\ [][IsNativeCall
            => /\ frames >= 1
               /\ lastCall'.fn \in interp.registered
               /\ Loaded]_vars

\* C15 witness: the chunk defined update and then called a native callable,
\* which raised; the component is Loaded and a frame called a native callable
C15_Witness ==
    /\ Loaded
    /\ script.err
    /\ interp.stack = <<"call_nil">>
    /\ frames >= 1
    /\ lastCall.fn \in NativeNames
    /\ pc = "in_script"

\* C16: the interpreter state luaL_newstate created is closed exactly once
\* over construct, update*, destroy: at the failure exit of the constructor
\* when construction fails, in the destructor otherwise; it is never closed a
\* second time, and once it is closed nothing is done with it: no script
\* function is invoked, no native callable runs, the state does not change.
C16_InterpreterClosedOnce ==
    /\ [](interp.closes <= 1)
    /\ [](pc = "destroyed" => interp.status = "closed" /\ interp.closes = 1)
    /\ [](Failed => interp.status = "closed" /\ interp.closes = 1)
    /\ []((Loaded /\ pc /= "destroyed") => interp.status = "open" /\ interp.closes = 0)
    /\ [][interp.status = "closed"
            => /\ interp' = interp
               /\ scriptCalls' = scriptCalls
               /\ lastCall' = lastCall
               /\ diags' = diags
               /\ pc' \in {"idle", "destroyed"}]_vars

\* C16 witness: construction failed on a script without update, update was
\* called twice, the component was destroyed
C16_Witness ==
    /\ pc = "destroyed"
    /\ lua = "null"
    /\ script.loadable
    /\ frames >= 2
    /\ interp.closes = 1

\* ===================================================================
\* Properties of ga_mesh and ga_model_component (checked under ModelSpec)
\* ===================================================================
ModelConstructed == mpc \in {"constructed", "destroyed"}

\* the faces of a scene, mesh after mesh, in face order
RECURSIVE AllFaces(_, _)
AllFaces(sc, i) ==
    IF i > Len(sc.meshes) THEN <<>> ELSE sc.meshes[i].faces \o AllFaces(sc, i + 1)

RECURSIVE WarningsFor(_)
\* one warning for every face of more than 3 indices, in order
WarningsFor(faces) ==
    IF faces = <<>> THEN <<>>
    ELSE (IF Len(Head(faces)) > 3
          THEN <<<<"Face with more than 3 verts", Len(Head(faces))>>>>
          ELSE <<>>) \o WarningsFor(Tail(faces))

RECURSIVE CountNot3(_)
CountNot3(faces) ==
    IF faces = <<>> THEN 0
    ELSE (IF Len(Head(faces)) /= 3 THEN 1 ELSE 0) + CountNot3(Tail(faces))

\* the lines of std::cout that warn about a face
FaceWarnings == SelectSeq(mlog, LAMBDA l : l[1] = "Face with more than 3 verts")

\* a step in which some operation detected, or met, a failure
LuaFailureStep ==
    \/ /\ pc = "unconstructed"
       /\ pc' /= "unconstructed"
       /\ (~script'.loadable \/ script'.err \/ ~lua_isfunction(script'.update))
    \/ /\ IsNativeCall
       /\ Len(lastCall'.args) /= (IF lastCall'.fn = "entity_translate" THEN 4 ELSE 1)
    \/ errors' > errors
    \/ Loaded /\ IsUpdateCall /\ ~lua_isfunction(interp.update)

\* C6 (as stated): every failure event (script load failure, runtime error of
\* the top-level chunk, missing update, argument-count mismatch at a native
\* callable, error during update, model import failure, non-triangular face)
\* writes at least one diagnostic before the operation that met it returns.
C6_Original ==
    /\ [][LuaFailureStep => Len(diags') > Len(diags)]_vars
    /\ [][mpc = "unconstructed" /\ mpc' = "constructed"
            => /\ ~scene'.loaded => Len(mlog') > Len(mlog)
               /\ Len(FaceWarnings') >= CountNot3(AllFaces(scene', 1))]_vars

\* C7: when the import fails the constructor completes, writes a diagnostic,
\* builds no mesh and generates no GL name, the root has no mesh and no child,
\* and every update after it completes having submitted no draw call.
C7_ImportFailureLeavesEmpty ==
    (mpc /= "unconstructed" /\ ~scene.loaded)
        => /\ ModelConstructed
           /\ mlog = <<<<"error: couldn't load obj", 0>>>>
           /\ meshes = <<>>
           /\ gpu = NoGpu
           /\ drawcalls = <<>>
           /\ passes.draw = mframes
           /\ mpc = "constructed"
                => Len(nodes) = 1 /\ nodes[1].meshes = <<>> /\ nodes[1].children = <<>>

\* C7 witness: the import failed and the component was updated twice
C7_Witness == mpc = "constructed" /\ ~scene.loaded /\ mframes >= 2

\* how often a GL name was deleted
Deletions(name) == Cardinality({k \in 1..Len(gpu.deleted) : gpu.deleted[k] = name})
GeneratedNames ==
    {<<"vao", k>> : k \in 1..gpu.vaos} \cup {<<"buffer", k>> : k \in 1..gpu.buffers}

\* C8 (as stated): once the component is destroyed every GL name make_buffers
\* generated for one of its meshes has been deleted exactly once.
C8_Original ==
    mpc = "destroyed" => \A name \in GeneratedNames : Deletions(name) = 1

RECURSIVE ExpectedWorld(_, _, _)
\* local x parent world, up to the root, whose parent is the entity
ExpectedWorld(heap, n, ent) ==
    Mul(heap[n].transform,
        IF heap[n].parent = 0 THEN ent ELSE ExpectedWorld(heap, heap[n].parent, ent))

\* C9: every update runs one update pass and one draw pass; after it every
\* node's world transform was recomputed in this frame from the entity's
\* current transform, and every draw call submitted carries the world
\* transform its node was given in this frame.
C9_UpdateBeforeDraw ==
    /\ [][mframes' = mframes + 1
            => /\ passes'.update = passes.update + 1
               /\ passes'.draw = passes.draw + 1
               /\ \A n \in 1..Len(nodes') :
                     /\ nodes'[n].stamp = mframes'
                     /\ nodes'[n].world = ExpectedWorld(nodes', n, mentity)
               /\ \A i \in 1..Len(drawcalls') :
                     /\ drawcalls'[i].stamp = mframes'
                     /\ drawcalls'[i].transform = nodes'[drawcalls'[i].node].world]_vars
    /\ [](passes.update = mframes /\ passes.draw = mframes)

\* C9 witness: a second frame, after the entity moved, drew a mesh of a child
C9_Witness ==
    /\ mframes >= 2
    /\ mentity /= Identity
    /\ \E i \in 1..Len(drawcalls) :
          /\ drawcalls[i].node > 1
          /\ drawcalls[i].transform = ExpectedWorld(nodes, drawcalls[i].node, mentity)

\* C10 (as stated): after create_from_aiMesh the index array of every mesh has
\* 3 entries per source face, face f contributing its first 3 indices in
\* order, and exactly the faces of more than 3 indices were warned about.
C10_Original ==
    (mpc = "constructed" /\ scene.loaded)
        => /\ \A i \in 1..Len(meshes) :
                LET faces == scene.meshes[i].faces
                IN  /\ Len(meshes[i].index_array) = 3 * Len(faces)
                    /\ meshes[i].index_count % 3 = 0
                    /\ \A f \in 1..Len(faces) : \A k \in 1..3 :
                          /\ k <= Len(faces[f])
                          /\ meshes[i].index_array[3 * (f - 1) + k] = faces[f][k]
           /\ FaceWarnings = WarningsFor(AllFaces(scene, 1))

\* TRUE when every face of the source mesh is a triangle
AllTriangles(aimesh) == \A f \in 1..Len(aimesh.faces) : Len(aimesh.faces[f]) = 3

\* C11: for a mesh built (create_from_aiMesh, then make_buffers) from a source
\* mesh whose faces are all triangles, the draw call assembled from it has an
\* index count of 3 x the number of source faces, the mode GL_TRIANGLES and the
\* material create_from_aiMesh allocated for the mesh, which is not null; every
\* draw call a frame submits is the one assembled from one of the meshes.
C11_BuildThenAssemble ==
    (mpc = "constructed" /\ scene.loaded)
        => /\ \A i \in 1..Len(meshes) :
                AllTriangles(scene.meshes[i])
                    => LET d == assemble_drawcall(meshes[i])
                       IN  /\ d.index_count = 3 * Len(scene.meshes[i].faces)
                           /\ d.draw_mode = "GL_TRIANGLES"
                           /\ d.material = meshes[i].material
                           /\ d.material /= NullMaterial
                           /\ d.material =
                                create_from_aiMesh(ga_mesh, scene.meshes[i], i, 0).mesh.material
           /\ \A k \in 1..Len(drawcalls) :
                \E i \in 1..Len(meshes) : drawcalls[k].call = assemble_drawcall(meshes[i])

\* C11 witness: a textured mesh of two triangles was built and a frame drew it
C11_Witness ==
    /\ mpc = "constructed"
    /\ \E i \in 1..Len(meshes) :
          /\ AllTriangles(scene.meshes[i])
          /\ Len(scene.meshes[i].faces) = 2
          /\ meshes[i].material.kind = "ga_lit_texture_material"
          /\ \E k \in 1..Len(drawcalls) :
                /\ drawcalls[k].call = assemble_drawcall(meshes[i])
                /\ drawcalls[k].call.index_count = 6

\* the GL names make_buffers generates for the i-th mesh built
NamesOfMesh(i) ==
    [vao |-> <<"vao", i>>, vbo |-> <<<<"buffer", 2 * i - 1>>, <<"buffer", 2 * i>>>>]

\* C12: once the component is constructed from a scene, make_buffers has run
\* exactly once for each of its meshes (one vertex array and two buffers were
\* generated per mesh, each mesh holding names of its own), it ran after
\* create_from_aiMesh populated the mesh (the index count it recorded is the
\* length of the populated index array), and every mesh a node references is
\* such a mesh; no frame and no later step generates a GL name or changes a
\* mesh, and every draw call carries the vertex array of a built mesh.
C12_BuffersMadeOncePerMesh ==
    /\ []((mpc = "constructed" /\ scene.loaded)
            => /\ Len(meshes) = Len(scene.meshes)
               /\ gpu.vaos = Len(meshes)
               /\ gpu.buffers = 2 * Len(meshes)
               /\ \A i \in 1..Len(meshes) :
                     /\ meshes[i].vao = NamesOfMesh(i).vao
                     /\ meshes[i].vbo = NamesOfMesh(i).vbo
                     /\ Len(meshes[i].index_array) = 3 * Len(scene.meshes[i].faces)
                     /\ meshes[i].index_count = Len(meshes[i].index_array)
               /\ \A n \in 1..Len(nodes) : \A k \in 1..Len(nodes[n].meshes) :
                     /\ nodes[n].meshes[k] \in 1..Len(meshes)
                     /\ meshes[nodes[n].meshes[k]].vao = NamesOfMesh(nodes[n].meshes[k]).vao)
    /\ [][mpc /= "unconstructed" => meshes' = meshes /\ gpu' = gpu]_vars
    /\ [][mframes' /= mframes
            => \A k \in 1..Len(drawcalls') :
                  \E i \in 1..Len(meshes) :
                     /\ drawcalls'[k].call.vao = NamesOfMesh(i).vao
                     /\ drawcalls'[k].call.index_count = Len(meshes[i].index_array)]_vars

\* C12 witness: two meshes with faces were built and the second frame drew
\* the second of them
C12_Witness ==
    /\ mpc = "constructed"
    /\ Len(meshes) = 2
    /\ Len(meshes[2].index_array) > 0
    /\ mframes >= 2
    /\ \E k \in 1..Len(drawcalls) : drawcalls[k].call.vao = NamesOfMesh(2).vao

RECURSIVE SameShape(_, _, _, _)
\* TRUE when native node n is built like imported node ai: its mesh references
\* are the meshes at the imported node's mesh indices, in order, and its
\* children are built like the imported children, in order, each with n as parent
SameShape(heap, sc, n, ai) ==
    /\ heap[n].name = sc.nodes[ai].name
    /\ heap[n].meshes = sc.nodes[ai].meshes
    /\ Len(heap[n].children) = Len(sc.nodes[ai].children)
    /\ \A i \in 1..Len(heap[n].children) :
          /\ heap[heap[n].children[i]].parent = n
          /\ SameShape(heap, sc, heap[n].children[i], sc.nodes[ai].children[i])

\* how often node c is linked into a child list of the heap
Links(heap, c) ==
    Cardinality({<<n, i>> \in (1..Len(heap)) \X (1..Len(heap)) :
                    i <= Len(heap[n].children) /\ heap[n].children[i] = c})

\* C13: after construction from a scene the native tree has one node per
\* imported node, exactly one root (the member _root, in no child list), every
\* other node linked once into the child list of exactly one node, its parent,
\* and the tree is built like the imported tree: children in the imported
\* order, mesh references equal, in order, to the built meshes at the imported
\* node's mesh indices.
C13_TreeOfSameShape ==
    (mpc = "constructed" /\ scene.loaded)
        => /\ Len(nodes) = Len(scene.nodes)
           /\ {n \in 1..Len(nodes) : nodes[n].parent = 0} = {1}
           /\ Links(nodes, 1) = 0
           /\ \A c \in 2..Len(nodes) : Links(nodes, c) = 1
           /\ SameShape(nodes, scene, 1, 1)
           /\ \A n \in 1..Len(nodes) : \A k \in 1..Len(nodes[n].meshes) :
                 nodes[n].meshes[k] \in 1..Len(meshes)

\* C13 witness: a root with two children, every node referencing two meshes
C13_Witness ==
    /\ mpc = "constructed"
    /\ Len(nodes) = 3
    /\ Len(nodes[1].children) = 2
    /\ nodes[1].meshes = <<2, 1>>
    /\ nodes[3].name = 3

====
